---- MODULE Spec2Model ----
(***************************************************************************)
(* Model of gui.py (Z.AI API Server control panel): the supervision of the *)
(* child server process by ApiServerGUI (start_server, read_server_output, *)
(* stop_server, quit_app) and the .env round trip (load_settings,          *)
(* save_settings).                                                         *)
(*                                                                         *)
(* Threads: the Tk main thread runs the button handlers, the tray thread   *)
(* runs quit_app, every successful start_server starts one daemon reader   *)
(* thread.  Python switches threads between statements, so every statement *)
(* that reads or writes self.server_process / self.is_server_running is    *)
(* one step.  pc values are the source line the thread executes next.      *)
(***************************************************************************)
EXTENDS Integers, Sequences, FiniteSets, TLC

\* ---------------------------------------------------------------- bounds
MaxProcs == 2        \* child processes spawned in one run
MaxLines == 1        \* output lines one child writes
MaxStarts == 2       \* start_server calls that get past the guard of line 356

\* ------------------------------------------------------------- constants
None == 0                       \* self.server_process = None
Pids == 1..MaxProcs
ExitCodes == {0, 1}
Callers == {"main", "tray"}

VARIABLES
    server_process,     \* self.server_process: None or the pid of a Popen object
    is_server_running,  \* self.is_server_running
    proc,               \* the child processes and their stdout pipes
    pc,                 \* per caller thread: the line it executes next
    cwait,              \* per caller thread: the Popen whose wait() it is blocked in
    err,                \* per caller thread: the uncaught exception it last raised
    rerr,               \* per reader thread: the uncaught exception that ended it
    rpc,                \* per reader thread: the line it executes next
    rstream,            \* per reader thread: the stdout whose readline iter() bound
    rline,              \* per reader thread: the loop variable line
    rwait,              \* per reader thread: the Popen whose wait() it is blocked in
    rcode,              \* per reader thread: return_code
    log,                \* what log_message has shown, in order
    quit,               \* root.destroy() has run
    env_file,           \* content of the .env file
    orig_file,          \* content of the .env file when it was loaded
    config_vars,        \* self.config_vars: the Tk variables of the settings tab
    cfg_pc,             \* position of the settings scenario
    changed             \* the key the user edited

supvars == <<server_process, is_server_running, proc, pc, cwait, err, rerr, rpc,
             rstream, rline, rwait, rcode, log, quit>>
cfgvars == <<env_file, orig_file, config_vars, cfg_pc, changed>>
vars == <<server_process, is_server_running, proc, pc, cwait, err, rerr, rpc,
          rstream, rline, rwait, rcode, log, quit,
          env_file, orig_file, config_vars, cfg_pc, changed>>

\* ------------------------------------------------------------ the children
\* A child: st is "unborn", "alive" or "exited"; code its exit code; out the
\* lines it has written to the pipe; rd the lines read from the pipe; closed:
\* the parent closed its end of the pipe; term / kill: terminate() / kill()
\* has been called on it.
NoProc == [st |-> "unborn", code |-> 0, out |-> 0, rd |-> 0, closed |-> FALSE,
           term |-> FALSE, kill |-> FALSE]

Spawned == Cardinality({p \in Pids : proc[p].st # "unborn"})
Alive(p) == proc[p].st = "alive"
HasExited(p) == proc[p].st = "exited"

Event(e, p, n) == [ev |-> e, p |-> p, n |-> n]
log_message(l, e, p, n) == Append(l, Event(e, p, n))
Count(l, e) == Cardinality({i \in 1..Len(l) : l[i].ev = e})

\* The interpreter has ended: root.destroy() ended mainloop and the main
\* thread has left its handler, which ends the daemon threads.
Ended == quit /\ pc["main"] = "idle"

\* Where a caller goes when its handler returns or raises.
Return(t) == IF t = "main" THEN "idle" ELSE "s436"
Raise(t, e) == /\ err' = [err EXCEPT ![t] = e]
               /\ pc' = [pc EXCEPT ![t] = "idle"]
               /\ cwait' = [cwait EXCEPT ![t] = None]

\* --------------------------------------------------------------- children
\* The child writes one more line to its stdout.
ProcWrite(p) ==
    /\ Alive(p) /\ ~proc[p].closed /\ proc[p].out < MaxLines
    /\ proc' = [proc EXCEPT ![p].out = @ + 1]
    /\ UNCHANGED <<server_process, is_server_running, pc, cwait, err, rerr, rpc,
                   rstream, rline, rwait, rcode, log, quit>>
    /\ UNCHANGED cfgvars

\* The child exits, on its own or because it was signalled, with code c.
ProcExit(p, c) ==
    /\ Alive(p)
    /\ proc' = [proc EXCEPT ![p].st = "exited", ![p].code = c]
    /\ UNCHANGED <<server_process, is_server_running, pc, cwait, err, rerr, rpc,
                   rstream, rline, rwait, rcode, log, quit>>
    /\ UNCHANGED cfgvars

\* ------------------------------------------------------------ start_server
\* Tk runs the start button's command.
StartCall ==
    /\ pc["main"] = "idle" /\ ~quit
    /\ Count(log, "starting") < MaxStarts
    /\ pc' = [pc EXCEPT !["main"] = "s356"]
    /\ UNCHANGED <<server_process, is_server_running, proc, cwait, err, rerr, rpc,
                   rstream, rline, rwait, rcode, log, quit>>
    /\ UNCHANGED cfgvars

\* The guard of start_server.
StartGuard == ~is_server_running

\* Lines 356-357: the guard, and the "starting" message.
Start356 ==
    /\ pc["main"] = "s356"
    /\ IF StartGuard
         THEN /\ log' = log_message(log, "starting", None, 0)
              /\ pc' = [pc EXCEPT !["main"] = "s366"]
         ELSE /\ pc' = [pc EXCEPT !["main"] = "idle"]
              /\ log' = log
    /\ UNCHANGED <<server_process, is_server_running, proc, cwait, err, rerr, rpc,
                   rstream, rline, rwait, rcode, quit>>
    /\ UNCHANGED cfgvars

\* Line 366: subprocess.Popen spawns the child and the handle is stored, or
\* Popen raises and nothing is assigned.
Start366 ==
    /\ pc["main"] = "s366"
    /\ \/ /\ Spawned < MaxProcs
          /\ proc' = [proc EXCEPT ![Spawned + 1].st = "alive"]
          /\ server_process' = Spawned + 1
          /\ pc' = [pc EXCEPT !["main"] = "s374"]
          /\ UNCHANGED <<err, cwait>>
       \/ /\ Raise("main", "OSError@366")
          /\ UNCHANGED <<proc, server_process>>
    /\ UNCHANGED <<is_server_running, rerr, rpc, rstream, rline, rwait, rcode, log, quit>>
    /\ UNCHANGED cfgvars

\* Line 374.
Start374 ==
    /\ pc["main"] = "s374"
    /\ is_server_running' = TRUE
    /\ pc' = [pc EXCEPT !["main"] = "s375"]
    /\ UNCHANGED <<server_process, proc, cwait, err, rerr, rpc,
                   rstream, rline, rwait, rcode, log, quit>>
    /\ UNCHANGED cfgvars

\* Line 375: the message reads self.server_process.pid.
Start375 ==
    /\ pc["main"] = "s375"
    /\ IF server_process = None
         THEN /\ Raise("main", "AttributeError@375")
              /\ log' = log
         ELSE /\ log' = log_message(log, "started", server_process, 0)
              /\ pc' = [pc EXCEPT !["main"] = "s376"]
              /\ UNCHANGED <<err, cwait>>
    /\ UNCHANGED <<server_process, is_server_running, proc, rerr, rpc,
                   rstream, rline, rwait, rcode, quit>>
    /\ UNCHANGED cfgvars

\* Line 376: the reader thread of this call is started; start_server returns.
\* Only the main thread spawns, so the child of this call is the last one.
Start376 ==
    /\ pc["main"] = "s376"
    /\ rpc' = [rpc EXCEPT ![Spawned] = "s380"]
    /\ pc' = [pc EXCEPT !["main"] = "idle"]
    /\ UNCHANGED <<server_process, is_server_running, proc, cwait, err, rerr,
                   rstream, rline, rwait, rcode, log, quit>>
    /\ UNCHANGED cfgvars

\* ------------------------------------------------------ read_server_output
RaiseReader(r, e) == /\ rerr' = [rerr EXCEPT ![r] = e]
                     /\ rpc' = [rpc EXCEPT ![r] = "raised"]

\* Line 380: if self.server_process.
Read380(r) ==
    /\ rpc[r] = "s380" /\ ~Ended
    /\ rpc' = [rpc EXCEPT ![r] = IF server_process # None THEN "s381" ELSE "done"]
    /\ UNCHANGED <<server_process, is_server_running, proc, pc, cwait, err, rerr,
                   rstream, rline, rwait, rcode, log, quit>>
    /\ UNCHANGED cfgvars

\* Line 381, once: iter(self.server_process.stdout.readline, '') binds the
\* readline of the stdout of whatever self.server_process is now.
Read381(r) ==
    /\ rpc[r] = "s381" /\ ~Ended
    /\ IF server_process = None
         THEN /\ RaiseReader(r, "AttributeError@381")
              /\ UNCHANGED rstream
         ELSE /\ rstream' = [rstream EXCEPT ![r] = server_process]
              /\ rpc' = [rpc EXCEPT ![r] = "readline"]
              /\ UNCHANGED rerr
    /\ UNCHANGED <<server_process, is_server_running, proc, pc, cwait, err,
                   rline, rwait, rcode, log, quit>>
    /\ UNCHANGED cfgvars

\* Line 381, every iteration: readline() on the bound stream: the next line,
\* '' at end of file (the child has exited and the pipe is drained), blocked
\* otherwise; ValueError when the file object has been closed.
ReadLine(r) ==
    /\ rpc[r] = "readline" /\ ~Ended
    /\ LET q == rstream[r] IN
       IF proc[q].closed
         THEN /\ RaiseReader(r, "ValueError@381")
              /\ UNCHANGED <<proc, rline>>
         ELSE \/ /\ proc[q].rd < proc[q].out
                 /\ rline' = [rline EXCEPT ![r] = proc[q].rd + 1]
                 /\ proc' = [proc EXCEPT ![q].rd = @ + 1]
                 /\ rpc' = [rpc EXCEPT ![r] = "s382"]
                 /\ UNCHANGED rerr
              \/ /\ proc[q].rd = proc[q].out /\ HasExited(q)
                 /\ rpc' = [rpc EXCEPT ![r] = "s383"]
                 /\ UNCHANGED <<proc, rline, rerr>>
    /\ UNCHANGED <<server_process, is_server_running, pc, cwait, err,
                   rstream, rwait, rcode, log, quit>>
    /\ UNCHANGED cfgvars

\* Line 382: the line is shown.
Read382(r) ==
    /\ rpc[r] = "s382" /\ ~Ended
    /\ log' = log_message(log, "line", rstream[r], rline[r])
    /\ rline' = [rline EXCEPT ![r] = 0]
    /\ rpc' = [rpc EXCEPT ![r] = "readline"]
    /\ UNCHANGED <<server_process, is_server_running, proc, pc, cwait, err, rerr,
                   rstream, rwait, rcode, quit>>
    /\ UNCHANGED cfgvars

\* Line 383: self.server_process.stdout.close().
Read383(r) ==
    /\ rpc[r] = "s383" /\ ~Ended
    /\ IF server_process = None
         THEN /\ RaiseReader(r, "AttributeError@383")
              /\ UNCHANGED proc
         ELSE /\ proc' = [proc EXCEPT ![server_process].closed = TRUE]
              /\ rpc' = [rpc EXCEPT ![r] = "s384"]
              /\ UNCHANGED rerr
    /\ UNCHANGED <<server_process, is_server_running, pc, cwait, err,
                   rstream, rline, rwait, rcode, log, quit>>
    /\ UNCHANGED cfgvars

\* Line 384, the call: self.server_process.wait() is entered on whatever
\* self.server_process is now.
Read384(r) ==
    /\ rpc[r] = "s384" /\ ~Ended
    /\ IF server_process = None
         THEN /\ RaiseReader(r, "AttributeError@384")
              /\ UNCHANGED rwait
         ELSE /\ rwait' = [rwait EXCEPT ![r] = server_process]
              /\ rpc' = [rpc EXCEPT ![r] = "wait"]
              /\ UNCHANGED rerr
    /\ UNCHANGED <<server_process, is_server_running, proc, pc, cwait, err,
                   rstream, rline, rcode, log, quit>>
    /\ UNCHANGED cfgvars

\* Line 384, the return: wait() returns the exit code once that child has exited.
ReadWait(r) ==
    /\ rpc[r] = "wait" /\ ~Ended
    /\ HasExited(rwait[r])
    /\ rcode' = [rcode EXCEPT ![r] = proc[rwait[r]].code]
    /\ rpc' = [rpc EXCEPT ![r] = "s385"]
    /\ UNCHANGED <<server_process, is_server_running, proc, pc, cwait, err, rerr,
                   rstream, rline, rwait, log, quit>>
    /\ UNCHANGED cfgvars

\* Line 385 left out: the reader thread does not record the exit.
Read385_KeepsFlag(r) ==
    /\ rpc[r] = "s385" /\ ~Ended
    /\ rpc' = [rpc EXCEPT ![r] = "s386"]
    /\ UNCHANGED <<server_process, is_server_running, proc, pc, cwait, err, rerr,
                   rstream, rline, rwait, rcode, log, quit>>
    /\ UNCHANGED cfgvars

\* Line 385.
Read385(r) ==
    /\ rpc[r] = "s385" /\ ~Ended
    /\ is_server_running' = FALSE
    /\ rpc' = [rpc EXCEPT ![r] = "s386"]
    /\ UNCHANGED <<server_process, proc, pc, cwait, err, rerr,
                   rstream, rline, rwait, rcode, log, quit>>
    /\ UNCHANGED cfgvars

\* Line 386: the terminal status message, with return_code.
Read386(r) ==
    /\ rpc[r] = "s386" /\ ~Ended
    /\ log' = log_message(log, "terminated", rwait[r], rcode[r])
    /\ rpc' = [rpc EXCEPT ![r] = "done"]
    /\ UNCHANGED <<server_process, is_server_running, proc, pc, cwait, err, rerr,
                   rstream, rline, rwait, rcode, quit>>
    /\ UNCHANGED cfgvars

\* ------------------------------------------------------------- stop_server
\* Tk runs the stop button's command.
StopCall ==
    /\ pc["main"] = "idle" /\ ~quit
    /\ pc' = [pc EXCEPT !["main"] = "s390"]
    /\ UNCHANGED <<server_process, is_server_running, proc, cwait, err, rerr, rpc,
                   rstream, rline, rwait, rcode, log, quit>>
    /\ UNCHANGED cfgvars

\* The tray menu's quit entry: on_command runs quit_app on the tray thread,
\* which calls stop_server.
QuitCall ==
    /\ pc["tray"] = "idle" /\ ~Ended
    /\ pc' = [pc EXCEPT !["tray"] = "s390"]
    /\ UNCHANGED <<server_process, is_server_running, proc, cwait, err, rerr, rpc,
                   rstream, rline, rwait, rcode, log, quit>>
    /\ UNCHANGED cfgvars

\* The guard of stop_server without the test of the flag.
StopGuard_HandleOnly == server_process # None

\* The guard of stop_server.
StopGuard == is_server_running /\ server_process # None

\* Lines 390-391: the guard, and the "stopping" message.
Stop390(t) ==
    /\ pc[t] = "s390" /\ ~Ended
    /\ IF StopGuard
         THEN /\ log' = log_message(log, "stopping", None, 0)
              /\ pc' = [pc EXCEPT ![t] = "s392"]
         ELSE /\ pc' = [pc EXCEPT ![t] = Return(t)]
              /\ log' = log
    /\ UNCHANGED <<server_process, is_server_running, proc, cwait, err, rerr, rpc,
                   rstream, rline, rwait, rcode, quit>>
    /\ UNCHANGED cfgvars

\* Line 392: self.server_process.terminate().
Stop392(t) ==
    /\ pc[t] = "s392" /\ ~Ended
    /\ IF server_process = None
         THEN /\ Raise(t, "AttributeError@392")
              /\ UNCHANGED proc
         ELSE /\ proc' = [proc EXCEPT ![server_process].term = TRUE]
              /\ pc' = [pc EXCEPT ![t] = "s394"]
              /\ UNCHANGED <<err, cwait>>
    /\ UNCHANGED <<server_process, is_server_running, rerr, rpc,
                   rstream, rline, rwait, rcode, log, quit>>
    /\ UNCHANGED cfgvars

\* Line 394, the call: self.server_process.wait(timeout=5) is entered.
Stop394(t) ==
    /\ pc[t] = "s394" /\ ~Ended
    /\ IF server_process = None
         THEN /\ Raise(t, "AttributeError@394")
         ELSE /\ cwait' = [cwait EXCEPT ![t] = server_process]
              /\ pc' = [pc EXCEPT ![t] = "wait"]
              /\ UNCHANGED err
    /\ UNCHANGED <<server_process, is_server_running, proc, rerr, rpc,
                   rstream, rline, rwait, rcode, log, quit>>
    /\ UNCHANGED cfgvars

\* Lines 394-397, the return: the child has exited within the timeout
\* (line 395), or TimeoutExpired is raised while it is still alive (line 397).
StopWait(t) ==
    /\ pc[t] = "wait" /\ ~Ended
    /\ \/ /\ HasExited(cwait[t])
          /\ log' = log_message(log, "stopped", None, 0)
          /\ pc' = [pc EXCEPT ![t] = "s400"]
       \/ /\ Alive(cwait[t])
          /\ log' = log_message(log, "timeout", None, 0)
          /\ pc' = [pc EXCEPT ![t] = "s398"]
    /\ cwait' = [cwait EXCEPT ![t] = None]
    /\ UNCHANGED <<server_process, is_server_running, proc, err, rerr, rpc,
                   rstream, rline, rwait, rcode, quit>>
    /\ UNCHANGED cfgvars

\* Lines 398-399: self.server_process.kill() and the "killed" message.
Stop398(t) ==
    /\ pc[t] = "s398" /\ ~Ended
    /\ IF server_process = None
         THEN /\ Raise(t, "AttributeError@398")
              /\ UNCHANGED <<proc, log>>
         ELSE /\ proc' = [proc EXCEPT ![server_process].kill = TRUE]
              /\ log' = log_message(log, "killed", None, 0)
              /\ pc' = [pc EXCEPT ![t] = "s400"]
              /\ UNCHANGED <<err, cwait>>
    /\ UNCHANGED <<server_process, is_server_running, rerr, rpc,
                   rstream, rline, rwait, rcode, quit>>
    /\ UNCHANGED cfgvars

\* Line 400.
Stop400(t) ==
    /\ pc[t] = "s400" /\ ~Ended
    /\ is_server_running' = FALSE
    /\ pc' = [pc EXCEPT ![t] = "s401"]
    /\ UNCHANGED <<server_process, proc, cwait, err, rerr, rpc,
                   rstream, rline, rwait, rcode, log, quit>>
    /\ UNCHANGED cfgvars

\* Line 401; stop_server returns.
Stop401(t) ==
    /\ pc[t] = "s401" /\ ~Ended
    /\ server_process' = None
    /\ pc' = [pc EXCEPT ![t] = Return(t)]
    /\ UNCHANGED <<is_server_running, proc, cwait, err, rerr, rpc,
                   rstream, rline, rwait, rcode, log, quit>>
    /\ UNCHANGED cfgvars

\* quit_app lines 436-438: the tray icon and the root window are destroyed.
Quit436 ==
    /\ pc["tray"] = "s436" /\ ~Ended
    /\ quit' = TRUE
    /\ pc' = [pc EXCEPT !["tray"] = "done"]
    /\ UNCHANGED <<server_process, is_server_running, proc, cwait, err, rerr, rpc,
                   rstream, rline, rwait, rcode, log>>
    /\ UNCHANGED cfgvars

\* ------------------------------------------------------------- .env file
\* A string is a sequence of tokens: "NL" is the newline, "SP" a blank, "EQ"
\* the '=' sign, "HASH" the '#' sign; every other token is a word without
\* blanks.  The file is one string.
MaxFileLen == 3      \* tokens of the .env file that is loaded

\* _define_env_vars: the keys of the settings tab, in the order of the
\* OrderedDict, and those of type 'bool'.
env_definitions ==
    <<"API_ENDPOINT", "AUTH_TOKEN", "SKIP_AUTH_TOKEN", "BACKUP_TOKEN",
      "LISTEN_PORT", "DEBUG_LOGGING", "THINKING_PROCESSING", "ANONYMOUS_MODE",
      "TOOL_SUPPORT", "SCAN_LIMIT">>
BoolKeys == {"SKIP_AUTH_TOKEN", "DEBUG_LOGGING", "ANONYMOUS_MODE", "TOOL_SUPPORT"}
Keys == {env_definitions[i] : i \in 1..Len(env_definitions)}

\* The tokens the loaded file is made of, and what the user types in an entry.
Alphabet == {"NL", "SP", "EQ", "HASH", "API_ENDPOINT", "DEBUG_LOGGING", "FOO",
             "x", "True"}
Files == UNION {[1..n -> Alphabet] : n \in 0..MaxFileLen}
Typed == {<<>>, <<"x">>, <<"y">>}

IsSpace(c) == c \in {"SP", "NL"}

RECURSIVE lstrip(_)
lstrip(s) == IF s = <<>> THEN s
             ELSE IF IsSpace(Head(s)) THEN lstrip(Tail(s)) ELSE s

RECURSIVE rstrip(_)
rstrip(s) == IF s = <<>> THEN s
             ELSE IF IsSpace(s[Len(s)]) THEN rstrip(SubSeq(s, 1, Len(s) - 1)) ELSE s

\* str.strip()
strip(s) == rstrip(lstrip(s))

\* str.lower(), on the words of the alphabet
lower(s) == [i \in 1..Len(s) |-> IF s[i] = "True" THEN "true" ELSE s[i]]

\* The end of the first line of a non-empty string.
LineEnd(f) ==
    IF \E i \in 1..Len(f) : f[i] = "NL"
      THEN CHOOSE i \in 1..Len(f) : f[i] = "NL" /\ \A j \in 1..(i - 1) : f[j] # "NL"
      ELSE Len(f)

\* f.readlines() and iteration over f: the lines, each with its newline; the
\* last line has none when the file does not end in one.
RECURSIVE readlines(_)
readlines(f) ==
    IF f = <<>> THEN <<>>
    ELSE <<SubSeq(f, 1, LineEnd(f))>> \o readlines(SubSeq(f, LineEnd(f) + 1, Len(f)))

\* f.writelines(lines): the strings one after the other, nothing added.
RECURSIVE writelines(_)
writelines(lines) ==
    IF lines = <<>> THEN <<>> ELSE Head(lines) \o writelines(Tail(lines))

\* Lines 275 and 309: line and not line.startswith('#') and '=' in line,
\* of a stripped line.
IsAssignment(st) ==
    /\ st # <<>>
    /\ Head(st) # "HASH"
    /\ \E i \in 1..Len(st) : st[i] = "EQ"

FirstEq(st) == CHOOSE i \in 1..Len(st) : st[i] = "EQ" /\ \A j \in 1..(i - 1) : st[j] # "EQ"
\* line.split('=', 1)[0].strip() and line.split('=', 1)[1].strip()
KeyOf(st) == strip(SubSeq(st, 1, FirstEq(st) - 1))
ValueOf(st) == strip(SubSeq(st, FirstEq(st) + 1, Len(st)))
\* key in self.config_vars
Known(key) == Len(key) = 1 /\ key[1] \in Keys

\* current_values.get(k, ''): the value of the last line that assigns k.
CurrentValue(lines, k) ==
    LET at == {i \in 1..Len(lines) :
                  IsAssignment(strip(lines[i])) /\ KeyOf(strip(lines[i])) = <<k>>}
    IN  IF at = {} THEN <<>>
        ELSE ValueOf(strip(lines[CHOOSE i \in at : \A j \in at : j <= i]))

\* load_settings: the Tk variables after the file has been read.
load_settings(f) ==
    [k \in Keys |->
        IF k \in BoolKeys THEN lower(CurrentValue(readlines(f), k)) = <<"true">>
        ELSE CurrentValue(readlines(f), k)]

\* Lines 313-317 and 327-331: f"{key}={value}\n".
KeyLine(k, cv) ==
    <<k, "EQ">>
      \o (IF k \in BoolKeys THEN (IF cv[k] THEN <<"true">> ELSE <<"false">>) ELSE cv[k])
      \o <<"NL">>

\* Lines 307-322: a line of a known key is written anew, any other line is kept.
NewLine(line, cv) ==
    IF IsAssignment(strip(line)) /\ Known(KeyOf(strip(line)))
      THEN KeyLine(KeyOf(strip(line))[1], cv)
      ELSE line

\* processed_keys
ProcessedKeys(lines) ==
    {k \in Keys : \E i \in 1..Len(lines) :
        IsAssignment(strip(lines[i])) /\ KeyOf(strip(lines[i])) = <<k>>}

\* Lines 325-331: the keys the file did not hold, in the order of config_vars.
RECURSIVE NewKeys(_, _, _)
NewKeys(i, done, cv) ==
    IF i > Len(env_definitions) THEN <<>>
    ELSE (IF env_definitions[i] \in done THEN <<>> ELSE <<KeyLine(env_definitions[i], cv)>>)
           \o NewKeys(i + 1, done, cv)

\* save_settings: the content of the file after it has been written.
save_settings(f, cv) ==
    LET lines == readlines(f)
        new_lines == [i \in 1..Len(lines) |-> NewLine(lines[i], cv)]
    IN  writelines(new_lines \o NewKeys(1, ProcessedKeys(lines), cv))

\* _populate_settings_widgets: a BooleanVar or a StringVar per key.
NewVars == [k \in Keys |-> IF k \in BoolKeys THEN FALSE ELSE <<>>]

\* __init__ line 125: load_settings().
LoadSettings ==
    /\ cfg_pc = "start"
    /\ config_vars' = load_settings(env_file)
    /\ orig_file' = env_file
    /\ log' = log_message(log, "loaded", None, 0)
    /\ cfg_pc' = "loaded"
    /\ UNCHANGED <<env_file, changed>>
    /\ UNCHANGED <<server_process, is_server_running, proc, pc, cwait, err, rerr,
                   rpc, rstream, rline, rwait, rcode, quit>>

\* The user changes the widget of one key: types into an entry, picks a combo
\* value or toggles a checkbox.
EditSetting(k, v) ==
    /\ cfg_pc = "loaded"
    /\ config_vars' = [config_vars EXCEPT ![k] = IF k \in BoolKeys THEN ~@ ELSE v]
    /\ config_vars'[k] # config_vars[k]
    /\ changed' = k
    /\ cfg_pc' = "edited"
    /\ UNCHANGED <<env_file, orig_file>>
    /\ UNCHANGED supvars

\* The save button: save_settings().
SaveSettings ==
    /\ cfg_pc = "edited"
    /\ env_file' = save_settings(env_file, config_vars)
    /\ log' = IF is_server_running
                THEN log_message(log_message(log, "saved", None, 0), "restart", None, 0)
                ELSE log_message(log, "saved", None, 0)
    /\ cfg_pc' = "saved"
    /\ UNCHANGED <<orig_file, config_vars, changed>>
    /\ UNCHANGED <<server_process, is_server_running, proc, pc, cwait, err, rerr,
                   rpc, rstream, rline, rwait, rcode, quit>>

\* ------------------------------------------------------------------ specs
CfgIdle ==
    /\ env_file = <<>>
    /\ orig_file = <<>>
    /\ config_vars = NewVars
    /\ cfg_pc = "off"
    /\ changed = "none"

\* ApiServerGUI.__init__, lines 114-117.
SupInit ==
    /\ server_process = None
    /\ is_server_running = FALSE
    /\ proc = [p \in Pids |-> NoProc]
    /\ pc = [t \in Callers |-> "idle"]
    /\ cwait = [t \in Callers |-> None]
    /\ err = [t \in Callers |-> "none"]
    /\ rerr = [r \in Pids |-> "none"]
    /\ rpc = [r \in Pids |-> "unborn"]
    /\ rstream = [r \in Pids |-> None]
    /\ rline = [r \in Pids |-> 0]
    /\ rwait = [r \in Pids |-> None]
    /\ rcode = [r \in Pids |-> 0]
    /\ log = <<>>
    /\ quit = FALSE

Init == SupInit /\ CfgIdle

ChildStep == \E p \in Pids : ProcWrite(p) \/ (\E c \in ExitCodes : ProcExit(p, c))

StartStep == StartCall \/ Start356 \/ Start366 \/ Start374 \/ Start375 \/ Start376

\* One step of reader thread r.
Reader(r) ==
    \/ Read380(r) \/ Read381(r) \/ ReadLine(r) \/ Read382(r) \/ Read383(r)
    \/ Read384(r) \/ ReadWait(r) \/ Read385(r) \/ Read386(r)

ReaderStep == \E r \in Pids : Reader(r)

\* stop_server on the main thread (the stop button).
StopStep ==
    \/ StopCall
    \/ Stop390("main") \/ Stop392("main") \/ Stop394("main") \/ StopWait("main")
    \/ Stop398("main") \/ Stop400("main") \/ Stop401("main")

\* quit_app on the tray thread (the tray menu's quit entry).
TrayStep ==
    \/ QuitCall
    \/ Stop390("tray") \/ Stop392("tray") \/ Stop394("tray") \/ StopWait("tray")
    \/ Stop398("tray") \/ Stop400("tray") \/ Stop401("tray")
    \/ Quit436

\* The window's session: the start and stop buttons, the reader threads and
\* the children; the tray menu is not used.
Next == ChildStep \/ StartStep \/ ReaderStep \/ StopStep

Spec == Init /\ [][Next]_vars

\* The first server session with the tray menu in use: start_server is
\* called once, stop_server runs on the main thread and, through quit_app, on
\* the tray thread.
FirstStart == Count(log, "starting") = 0 /\ StartCall

NextQuit ==
    \/ ChildStep
    \/ FirstStart \/ Start356 \/ Start366 \/ Start374 \/ Start375 \/ Start376
    \/ ReaderStep
    \/ StopStep
    \/ TrayStep

SpecQuit == Init /\ [][NextQuit]_vars

\* The same session when stop_server is never called: start_server, the
\* reader threads and the children.  A thread that can run is scheduled: each
\* reader thread, and the main thread inside start_server, keeps taking steps.
StartBody == Start356 \/ Start366 \/ Start374 \/ Start375 \/ Start376

NextNoStop == ChildStep \/ StartStep \/ ReaderStep

SpecNoStop ==
    /\ Init /\ [][NextNoStop]_vars
    /\ WF_vars(StartBody)
    /\ \A r \in Pids : WF_vars(Reader(r))

\* ------------------------------------------------------------ observations
AliveProcs == {p \in Pids : Alive(p)}
\* The terminal status events shown for child p.
Terminals(p) == {i \in 1..Len(log) : log[i].ev = "terminated" /\ log[i].p = p}
\* The output lines shown for child p.
Lines(p) == {i \in 1..Len(log) : log[i].ev = "line" /\ log[i].p = p}
StopErrors == {"AttributeError@392", "AttributeError@394", "AttributeError@398"}
ReaderErrors == {"AttributeError@381", "AttributeError@383", "AttributeError@384"}

\* ------------------------------------------------------------------ claims
\* C1: in every reachable state at most one child process spawned by the
\* supervisor is alive.
C1_AtMostOneAlive == Cardinality(AliveProcs) <= 1

\* C2: when stop_server returns after it was called with a process tracked as
\* running, that child has exited, is_server_running is false and
\* server_process is None.
C2_StoppedOnReturn ==
    [][(pc["main"] = "s401" /\ pc'["main"] = "idle")
        => /\ server_process # None
           /\ HasExited(server_process)
           /\ ~is_server_running'
           /\ server_process' = None]_vars

\* C3: a child that exits on its own, stop_server never being called, leads to
\* is_server_running becoming false and to exactly one terminal status event
\* for that child, which carries the exit code the child returned.
C3_AutonomousExit ==
    \A p \in Pids :
        /\ [](Cardinality(Terminals(p)) <= 1)
        /\ [](\A i \in Terminals(p) : HasExited(p) /\ log[i].n = proc[p].code)
        /\ (HasExited(p) /\ server_process = p /\ is_server_running)
               ~> ~is_server_running
        /\ HasExited(p) ~> (rpc[p] = "done" /\ Cardinality(Terminals(p)) = 1)

\* C3 witness: a child has exited with code 1, stop_server was never called,
\* and its reader thread has shown the terminal event.
C3_Witness ==
    \E p \in Pids :
        /\ HasExited(p) /\ proc[p].code = 1 /\ ~proc[p].term
        /\ rpc[p] = "done" /\ Terminals(p) # {}
        /\ ~is_server_running

\* C4: when two callers run stop_server on the same child at once, no caller
\* and no reader thread ends in an AttributeError on a cleared handle, and
\* once the threads have finished there is exactly one terminal event for
\* the child.
C4_TwoCallers ==
    Count(log, "stopping") >= 2 =>
        /\ \A t \in Callers : err[t] \notin StopErrors
        /\ \A r \in Pids : rerr[r] \notin ReaderErrors
        /\ \A p \in Pids :
             (HasExited(p) /\ rpc[p] \in {"done", "raised"}
                /\ \A t \in Callers : pc[t] \in {"idle", "s436", "done"})
             => Cardinality(Terminals(p)) = 1

\* C5: the output lines of a child are shown in the order the child wrote
\* them, and its terminal status event is shown after its last output line.
C5_OutputOrder ==
    \A p \in Pids :
        /\ \A i, j \in Lines(p) : i < j => log[i].n < log[j].n
        /\ \A i \in Lines(p) : \A j \in Terminals(p) : i < j

\* C6: kill() is called only on a child that terminate() was called on and
\* whose wait timed out, and stop_server does not return before the terminal
\* event of the child it stopped has been shown.
C6_StopWaitsForTerminal ==
    [][/\ \A p \in Pids : (proc'[p].kill /\ ~proc[p].kill) => proc[p].term
       /\ (pc["main"] = "s401" /\ pc'["main"] = "idle")
            => (server_process # None /\ Terminals(server_process) # {})]_vars

\* C7: once the terminal event of a child has been shown, after an autonomous
\* exit as after stop_server, the handle has been cleared and the observer
\* has been notified exactly once.
C7_SameBookkeeping ==
    \A p \in Pids :
        Terminals(p) # {} => (server_process # p /\ Cardinality(Terminals(p)) = 1)

\* C8: when start_server, called while no process is tracked, returns after
\* a successful spawn, is_server_running is true; when the spawn fails,
\* is_server_running and server_process are unchanged and no reader thread is
\* started.
C8_RunningIffSpawned ==
    [][/\ (pc["main"] = "s376" /\ pc'["main"] = "idle") => is_server_running'
       /\ (pc["main"] = "s366" /\ pc'["main"] = "idle")
            => (~is_server_running' /\ UNCHANGED <<server_process, is_server_running, rpc, proc>>)]_vars

\* C9: stop_server called while no process is tracked as running returns
\* without a signal, a message, an error or a change of is_server_running and
\* server_process, on the main thread as on the tray thread.
C9_StopNoop ==
    [][\A t \in Callers :
        (pc[t] = "s390" /\ pc'[t] # "s390"
           /\ ~(is_server_running /\ server_process # None))
        => /\ pc'[t] = Return(t)
           /\ UNCHANGED <<server_process, is_server_running, proc, log, err,
                          cwait, rpc, rerr, quit>>]_vars

\* C9 witness: stop_server has been called while the flag is false and the
\* handle of a child that exited on its own is still stored.
C9_Witness ==
    /\ pc["main"] = "s390"
    /\ ~is_server_running
    /\ server_process # None /\ HasExited(server_process)

\* C11: reader thread r, started by the start_server call that spawned child
\* r, acts on child r only: it binds and closes the stdout of child r, waits
\* on child r, clears is_server_running only while no later child is tracked
\* and alive, and never raises AttributeError on a cleared handle.
C11_ReaderKeepsToItsProcess ==
    [][\A r \in Pids :
        /\ (rpc[r] = "s381" /\ rpc'[r] # "s381") => server_process = r
        /\ (rpc[r] = "s383" /\ rpc'[r] # "s383") => server_process = r
        /\ (rpc[r] = "s384" /\ rpc'[r] # "s384") => server_process = r
        /\ (rpc[r] = "s385" /\ rpc'[r] # "s385")
              => (rwait[r] = r
                  /\ ~(server_process \in Pids \ {r} /\ Alive(server_process)))
        /\ rerr'[r] \notin ReaderErrors]_vars

\* The settings tab: a .env file is loaded at start-up, the user changes one
\* setting and saves.
CfgInit ==
    /\ SupInit
    /\ env_file \in Files
    /\ orig_file = env_file
    /\ config_vars = NewVars
    /\ cfg_pc = "start"
    /\ changed = "none"

CfgNext ==
    \/ LoadSettings
    \/ \E k \in Keys : \E v \in Typed : EditSetting(k, v)
    \/ SaveSettings

SpecCfg == CfgInit /\ [][CfgNext]_vars

\* A line that save_settings is to leave alone: a comment, a blank line or a
\* KEY=value line of a key that is not in the schema.
IsComment(line) == strip(line) # <<>> /\ Head(strip(line)) = "HASH"
IsBlank(line) == strip(line) = <<>>
IsUnknownKey(line) == IsAssignment(strip(line)) /\ ~Known(KeyOf(strip(line)))

\* C10: after load_settings, a change of one recognized key and
\* save_settings, every comment line, blank line and unrecognized KEY=value
\* line of the loaded file stands unchanged at the same position of the
\* saved file.
C10_RoundTrip ==
    cfg_pc = "saved" =>
        LET old == readlines(orig_file)
            new == readlines(env_file)
        IN  \A i \in 1..Len(old) :
                (IsComment(old[i]) \/ IsBlank(old[i]) \/ IsUnknownKey(old[i]))
                    => (i <= Len(new) /\ new[i] = old[i])

====
